---- MODULE Spec2Model ----
(***************************************************************************)
(* Verification model of the OTA device agent.                             *)
(*                                                                         *)
(* Part I  - the channel client (src/OTA/utils/ws_client.py): the          *)
(*           supervisory thread (_run_client / connect), the receiver      *)
(*           thread (_receive_messages), the sender thread                 *)
(*           (_send_messages), send_message, start and stop, together with *)
(*           the progress reporter (src/OTA/ota/progress_reporter.py) that *)
(*           feeds the outbound queue from inside the message callback.    *)
(* Part II - the command dispatcher (src/OTA/ota/ota.py, ota_process).     *)
(*                                                                         *)
(* Threads are modelled as slots of a function: slot i is a thread object, *)
(* "dead" when it was never started or has finished.  Every step of a      *)
(* thread between two accesses to shared state is one action.              *)
(***************************************************************************)
EXTENDS Integers, Sequences, FiniteSets, TLC

----------------------------------------------------------------------------
(* Bounds of the model.                                                    *)

\* outbound progress updates the callback emits in one run
MaxMsgs == 2
\* inbound messages the server sends in one run
MaxIn == 2
\* failures of the network in one run: connections it closes plus
\* connection attempts it rejects
MaxFaults == 2
\* thread slots: supervisory, receiver and sender threads
MaxSup == 2
MaxRcv == 2
MaxSnd == 2
\* the counter of successful connects saturates here
MaxConnects == 2
\* inbound messages dispatched one after the other in one run
MaxDispatches == 2
\* lines of pull output read in one pull
MaxPullLines == 2
\* services of the manifest handed to one stopping stage
MaxServices == 2

(* Program constants.                                                      *)

\* threading.Event().wait(5) after a failed connect
RETRY_INTERVAL == 5
\* threading.Event().wait(1) while connected
CONNECTED_POLL == 1

Msgs == 1..MaxMsgs
InMsgs == 1..MaxIn
SupIds == 1..MaxSup
RcvIds == 1..MaxRcv
SndIds == 1..MaxSnd
\* identities of transport connection objects; 0 is None
ConnIds == 1..(MaxRcv + 2)

VARIABLES
  \* ---- WebSocketClient fields (ws_client.py:24-31) ----
  running,          \* self.running
  connected,        \* self.connected
  websocket,        \* self.websocket: 0 (None) or a connection identity
  message_callback, \* self.message_callback is set
  message_queue,    \* self.message_queue, head first
  receiver_thread,  \* self.receiver_thread: 0 (None) or a receiver slot
  sender_thread,    \* self.sender_thread: 0 (None) or a sender slot
  client_thread,    \* self.client_thread: 0 (unset) or a supervisor slot
  \* ---- threads ----
  supPc,            \* supervisor slot -> position in _run_client / connect
  rcvPc,            \* receiver slot -> position in _receive_messages
  rcvWs,            \* receiver slot -> connection its recv() is blocked on
  rcvMsg,           \* receiver slot -> inbound message it holds
  rcvOut,           \* receiver slot -> progress update being handed over
  sndPc,            \* sender slot -> position in _send_messages
  sndMsg,           \* sender slot -> message taken from the queue
  mainPc,           \* position of main() (updater/main.py, agent/main.py)
  stopPc,           \* position of a stop() call
  \* ---- transport and server ----
  open,             \* connections that are open at the transport
  nextIn,           \* next inbound message the server sends
  faults,           \* failures of the network so far
  \* ---- history ----
  nextMsg,          \* next progress update the callback emits
  fate,             \* update -> "none" | "nolink" | "refused" | "queued"
  callState,        \* update -> state seen by send_message: "none"|"up"|"down"
  written,          \* updates accepted by websocket.send, in order
  failed,           \* updates whose websocket.send raised at least once
  discarded,        \* updates removed from the queue by stop()
  handled,          \* inbound messages handed to the callback, in order
  fails,            \* consecutive failed connects of the supervisor
  lastWait,         \* the last wait the supervisor chose, in seconds
  connects,         \* successful connects, saturating at MaxConnects
  \* ---- dispatcher (ota.py, action_handlers.py) ----
  dMsg,             \* the inbound message ota_process is called with
  dPc,              \* position of ota_process and of the handler it calls
  emitted,          \* calls of send_progress_update: <<status, progress>>
  ops,              \* external operations performed and their results, in order
  stopCmds,         \* what the commands of stop_docker_services did, see Issued
  yaml,             \* yaml_content, the manifest the handler holds
  found,            \* len(services_found) of the running pull
  layers,           \* len(self._completed_layers) of the running pull
  lines,            \* lines of pull output read so far
  \* ---- state store and container engine ----
  latest,           \* the manifest stored as <service>_latest.yaml
  applied,          \* the manifest of the last rollout that completed
  live,             \* version of the running containers, 0 when none
  liveBefore,       \* live when the current message arrived
  exited,           \* a stopped container of the service exists
  exitedBefore,     \* exited when the current message arrived
  tagged,           \* versions stored as <service>_<tag>.yaml
  storeBefore,      \* latest and tagged when the current message arrived
  stoppedOk,        \* the previous message stopped the service with success
  dispatched,       \* inbound messages handed to ota_process so far
  \* ---- one call of stop_docker_services on a manifest of several services ----
  services,         \* the container of each service when the call begins
  stagePc,          \* idle, loop, returned
  runs,             \* per service handled: the commands issued and their answers
  stopped_services, \* the list stopped_services
  failed_services,  \* the list failed_services
  stopReturn,       \* the dict the call returns
  \* ---- the background threads of the agent (src/OTA/agent/main.py) ----
  container_descriptions, \* the names self.container_descriptions holds
  infoPc,           \* the container-info thread: idle, fetch, sleep, dead
  statusPc,         \* the status thread: idle, ps, lines, post, sleep
  psOut,            \* the container names `docker ps -a` listed in this read
  pending,          \* the lines of the listing not yet looked at
  found_containers, \* the set found_containers of this read
  missing_containers, \* the set missing_containers of this read
  snapshots         \* the values container_descriptions had during this read

clientVars == <<running, connected, websocket, message_callback, message_queue,
                receiver_thread, sender_thread, client_thread>>
threadVars == <<supPc, rcvPc, rcvWs, rcvMsg, rcvOut, sndPc, sndMsg, mainPc, stopPc>>
netVars    == <<open, nextIn, faults>>
histVars   == <<nextMsg, fate, callState, written, failed, discarded, handled,
                fails, lastWait, connects>>
chanVars   == <<clientVars, threadVars, netVars, histVars>>
pullVars   == <<found, layers, lines>>
storeVars  == <<latest, tagged, storeBefore>>
engineVars == <<live, exited, liveBefore, exitedBefore, stoppedOk>>
worldVars  == <<storeVars, applied, engineVars>>
rolloutVars == <<dMsg, dPc, emitted, ops, stopCmds, yaml, pullVars, worldVars, dispatched>>
stageVars  == <<services, stagePc, runs, stopped_services, failed_services, stopReturn>>
agentVars  == <<container_descriptions, infoPc, statusPc, psOut, pending,
                found_containers, missing_containers, snapshots>>
dispVars   == <<rolloutVars, stageVars, agentVars>>

----------------------------------------------------------------------------
(* Helpers.                                                                *)

Range(s) == {s[i] : i \in 1..Len(s)}

Min(S) == CHOOSE x \in S : \A y \in S : x <= y

\* threading.Thread.is_alive()
IsAlive(pc) == pc # "dead"

\* connection objects something still refers to
Referenced(ws, rpc, rws) ==
  ({ws} \cup {rws[i] : i \in {j \in RcvIds : rpc[j] = "recv"}}) \ {0}

\* the identity of the object a new websockets connect() returns
FreshConn == Min(ConnIds \ Referenced(websocket, rcvPc, rcvWs))

----------------------------------------------------------------------------
(* WebSocketClient.__init__ (ws_client.py:20-31).                          *)

InitChannel ==
  /\ running = TRUE
  /\ connected = FALSE
  /\ websocket = 0
  /\ message_callback = FALSE
  /\ message_queue = <<>>
  /\ receiver_thread = 0
  /\ sender_thread = 0
  /\ client_thread = 0
  /\ supPc = [s \in SupIds |-> "dead"]
  /\ rcvPc = [i \in RcvIds |-> "dead"]
  /\ rcvWs = [i \in RcvIds |-> 0]
  /\ rcvMsg = [i \in RcvIds |-> 0]
  /\ rcvOut = [i \in RcvIds |-> 0]
  /\ sndPc = [j \in SndIds |-> "dead"]
  /\ sndMsg = [j \in SndIds |-> 0]
  /\ mainPc = "register"
  /\ stopPc = "none"
  /\ open = {}
  /\ nextIn = 1
  /\ faults = 0
  /\ nextMsg = 1
  /\ fate = [m \in Msgs |-> "none"]
  /\ callState = [m \in Msgs |-> "none"]
  /\ written = <<>>
  /\ failed = {}
  /\ discarded = {}
  /\ handled = <<>>
  /\ fails = 0
  /\ lastWait = 0
  /\ connects = 0

----------------------------------------------------------------------------
(* main() of the updater and of the agent: register the callback, call     *)
(* start() once, then sleep forever.                                       *)

\* start() creates a supervisory thread whenever it is called
\* (ws_client.py:199-200): the thread object it starts, given the slots
StartedSlot(pcs) ==
  IF \E s \in SupIds : ~IsAlive(pcs[s])
    THEN Min({s \in SupIds : ~IsAlive(pcs[s])})
    ELSE 0

\* WebSocketClient.start
StartClient ==
  LET s == StartedSlot(supPc) IN
  /\ s # 0
  /\ supPc' = [supPc EXCEPT ![s] = "loop"]
  /\ client_thread' = s

\* register_message_callback (ws_client.py:42)
MainRegister ==
  /\ mainPc = "register"
  /\ message_callback' = TRUE
  /\ mainPc' = "start"
  /\ UNCHANGED dispVars
  /\ UNCHANGED <<running, connected, websocket, message_queue, receiver_thread,
                 sender_thread, client_thread, supPc, rcvPc, rcvWs, rcvMsg,
                 rcvOut, sndPc, sndMsg, stopPc, netVars, histVars>>

MainStart ==
  /\ mainPc = "start"
  /\ StartClient
  /\ mainPc' = "loop"
  /\ UNCHANGED dispVars
  /\ UNCHANGED <<running, connected, websocket, message_callback, message_queue,
                 receiver_thread, sender_thread, rcvPc, rcvWs, rcvMsg, rcvOut,
                 sndPc, sndMsg, stopPc, netVars, histVars>>

\* a further start() on a client that main() has already started
StartAgain ==
  /\ mainPc = "loop"
  /\ StartClient
  /\ UNCHANGED dispVars
  /\ UNCHANGED <<running, connected, websocket, message_callback, message_queue,
                 receiver_thread, sender_thread, rcvPc, rcvWs, rcvMsg, rcvOut,
                 sndPc, sndMsg, mainPc, stopPc, netVars, histVars>>

----------------------------------------------------------------------------
(* The supervisory thread: _run_client and the connect() it calls.         *)

\* mutant: the loops do not test running
LoopForever(r) == TRUE

\* `while self.running` of the three loops (ws_client.py:51, 83, 182)
KeepRunning(r) == r

\* mutant: the wait grows with the number of failed attempts
BackoffWait(n) == RETRY_INTERVAL * n

\* the wait after the n-th consecutive failed connect (ws_client.py:188)
RetryWait(n) == RETRY_INTERVAL

\* mutant: every connect() starts new threads
NeedsThreadAlways(ref, pcs) == TRUE

\* connect() starts a thread when none is referenced or the referenced one
\* is not alive (ws_client.py:129, 135)
NeedsThread(ref, pcs) == ref = 0 \/ ~IsAlive(pcs[ref])

\* ws_client.py:182-190, one evaluation of the loop
SupLoop(s) ==
  /\ supPc[s] = "loop"
  /\ IF ~KeepRunning(running)
       THEN /\ supPc' = [supPc EXCEPT ![s] = "dead"]
            /\ UNCHANGED <<lastWait, fails>>
       ELSE IF ~connected
         THEN /\ supPc' = [supPc EXCEPT ![s] = "conn"]
              /\ UNCHANGED <<lastWait, fails>>
         ELSE /\ lastWait' = CONNECTED_POLL
              /\ fails' = 0
              /\ UNCHANGED supPc
  /\ UNCHANGED dispVars
  /\ UNCHANGED <<clientVars, rcvPc, rcvWs, rcvMsg, rcvOut, sndPc, sndMsg, mainPc,
                 stopPc, netVars, nextMsg, fate, callState, written, failed, discarded, handled, connects>>

\* ws_client.py:126-127, the server accepts the connection
SupConnectOk(s) ==
  /\ supPc[s] = "conn"
  /\ LET c == FreshConn IN
       /\ websocket' = c
       /\ open' = (open \cap Referenced(c, rcvPc, rcvWs)) \cup {c}
  /\ connected' = TRUE
  /\ connects' = IF connects < MaxConnects THEN connects + 1 ELSE connects
  /\ supPc' = [supPc EXCEPT ![s] = "rthread"]
  /\ UNCHANGED dispVars
  /\ UNCHANGED <<running, message_callback, message_queue, receiver_thread,
                 sender_thread, client_thread, rcvPc, rcvWs, rcvMsg, rcvOut,
                 sndPc, sndMsg, mainPc, stopPc, nextIn, faults,
                 nextMsg, fate, callState, written, failed, discarded, handled,
                 fails, lastWait>>

\* ws_client.py:143-146 and 187-188, the connection attempt raises
SupConnectFail(s) ==
  /\ supPc[s] = "conn"
  /\ faults < MaxFaults
  /\ faults' = faults + 1
  /\ connected' = FALSE
  /\ fails' = fails + 1
  /\ lastWait' = RetryWait(fails + 1)
  /\ supPc' = [supPc EXCEPT ![s] = "loop"]
  /\ UNCHANGED dispVars
  /\ UNCHANGED <<running, websocket, message_callback, message_queue,
                 receiver_thread, sender_thread, client_thread, rcvPc, rcvWs,
                 rcvMsg, rcvOut, sndPc, sndMsg, mainPc, stopPc, open, nextIn,
                 nextMsg, fate, callState, written, failed, discarded,
                 handled, connects>>

\* ws_client.py:129-133
SupStartReceiver(s) ==
  /\ supPc[s] = "rthread"
  /\ IF /\ NeedsThread(receiver_thread, rcvPc)
        /\ \E i \in RcvIds : ~IsAlive(rcvPc[i])
       THEN LET i == Min({k \in RcvIds : ~IsAlive(rcvPc[k])}) IN
              /\ rcvPc' = [rcvPc EXCEPT ![i] = "loop"]
              /\ receiver_thread' = i
       ELSE UNCHANGED <<rcvPc, receiver_thread>>
  /\ supPc' = [supPc EXCEPT ![s] = "sthread"]
  /\ UNCHANGED dispVars
  /\ UNCHANGED <<running, connected, websocket, message_callback, message_queue,
                 sender_thread, client_thread, rcvWs, rcvMsg, rcvOut, sndPc,
                 sndMsg, mainPc, stopPc, netVars, histVars>>

\* ws_client.py:135-142
SupStartSender(s) ==
  /\ supPc[s] = "sthread"
  /\ IF /\ NeedsThread(sender_thread, sndPc)
        /\ \E j \in SndIds : ~IsAlive(sndPc[j])
       THEN LET j == Min({k \in SndIds : ~IsAlive(sndPc[k])}) IN
              /\ sndPc' = [sndPc EXCEPT ![j] = "loop"]
              /\ sender_thread' = j
       ELSE UNCHANGED <<sndPc, sender_thread>>
  /\ supPc' = [supPc EXCEPT ![s] = "loop"]
  /\ UNCHANGED dispVars
  /\ UNCHANGED <<running, connected, websocket, message_callback, message_queue,
                 receiver_thread, client_thread, rcvPc, rcvWs, rcvMsg, rcvOut,
                 sndMsg, mainPc, stopPc, netVars, histVars>>

----------------------------------------------------------------------------
(* The receiver thread: _receive_messages, and the progress reporter that  *)
(* the callback calls while it runs in this thread.                        *)

\* WebSocketClient.is_connected (ws_client.py:173), read by
\* ProgressReporter.send_progress_update (progress_reporter.py:37)
IsConnected(c, r, ws) == c /\ r /\ ws # 0

\* mutant: send_message without its test
SendAcceptsAlways(c, r) == TRUE

\* mutant: send_message tests running only
SendAcceptsRunningOnly(c, r) == r

\* send_message puts the message on the queue (ws_client.py:157)
SendAccepts(c, r) == c /\ r

\* ws_client.py:51-53, the loop condition holds and recv() is entered on
\* self.websocket, or the loop is left
RcvLoop(i) ==
  /\ rcvPc[i] = "loop"
  /\ IF KeepRunning(running) /\ connected /\ websocket # 0
       THEN /\ rcvWs' = [rcvWs EXCEPT ![i] = websocket]
            /\ rcvPc' = [rcvPc EXCEPT ![i] = "recv"]
       ELSE /\ rcvPc' = [rcvPc EXCEPT ![i] = "exit"]
            /\ UNCHANGED rcvWs
  /\ UNCHANGED dispVars
  /\ UNCHANGED <<clientVars, supPc, rcvMsg, rcvOut, sndPc, sndMsg, mainPc,
                 stopPc, netVars, histVars>>

\* recv() returns the next message of the server
RcvMessage(i) ==
  /\ rcvPc[i] = "recv"
  /\ rcvWs[i] \in open
  /\ nextIn <= MaxIn
  /\ rcvMsg' = [rcvMsg EXCEPT ![i] = nextIn]
  /\ nextIn' = nextIn + 1
  /\ rcvPc' = [rcvPc EXCEPT ![i] = "got"]
  /\ rcvWs' = [rcvWs EXCEPT ![i] = 0]
  /\ open' = open \cap Referenced(websocket, rcvPc', rcvWs')
  /\ UNCHANGED dispVars
  /\ UNCHANGED <<clientVars, supPc, rcvOut, sndPc, sndMsg, mainPc, stopPc, faults,
                 histVars>>

\* ws_client.py:68-70, recv() times out
RcvTimeout(i) ==
  /\ rcvPc[i] = "recv"
  /\ rcvWs[i] \in open
  /\ rcvPc' = [rcvPc EXCEPT ![i] = "loop"]
  /\ rcvWs' = [rcvWs EXCEPT ![i] = 0]
  /\ open' = open \cap Referenced(websocket, rcvPc', rcvWs')
  /\ UNCHANGED dispVars
  /\ UNCHANGED <<clientVars, supPc, rcvMsg, rcvOut, sndPc, sndMsg, mainPc, stopPc,
                 nextIn, faults, histVars>>

\* ws_client.py:56-67, recv() raises ConnectionClosed*
RcvClosed(i) ==
  /\ rcvPc[i] = "recv"
  /\ rcvWs[i] \notin open
  /\ connected' = FALSE
  /\ rcvPc' = [rcvPc EXCEPT ![i] = "exit"]
  /\ rcvWs' = [rcvWs EXCEPT ![i] = 0]
  /\ UNCHANGED dispVars
  /\ UNCHANGED <<running, websocket, message_callback, message_queue,
                 receiver_thread, sender_thread, client_thread, supPc, rcvMsg,
                 rcvOut, sndPc, sndMsg, mainPc, stopPc, netVars, histVars>>

\* mutant: the callback is skipped once the connection was lost
HasCallbackWhileConnected(cb) == cb /\ connected

\* `if self.message_callback` (ws_client.py:54)
HasCallback(cb) == cb

\* ws_client.py:54-55, the callback is entered if one is registered
RcvInvoke(i) ==
  /\ rcvPc[i] = "got"
  /\ IF HasCallback(message_callback)
       THEN /\ handled' = Append(handled, rcvMsg[i])
            /\ rcvPc' = [rcvPc EXCEPT ![i] = "cb"]
            /\ UNCHANGED rcvMsg
       ELSE /\ rcvPc' = [rcvPc EXCEPT ![i] = "loop"]
            /\ rcvMsg' = [rcvMsg EXCEPT ![i] = 0]
            /\ UNCHANGED handled
  /\ UNCHANGED dispVars
  /\ UNCHANGED <<clientVars, supPc, rcvWs, rcvOut, sndPc, sndMsg, mainPc, stopPc,
                 netVars, nextMsg, fate, callState, written, failed, discarded,
                 fails, lastWait, connects>>

\* progress_reporter.py:37-59, the callback emits a progress update
RcvEmitBegin(i) ==
  /\ rcvPc[i] = "cb"
  /\ nextMsg <= MaxMsgs
  /\ nextMsg' = nextMsg + 1
  /\ IF IsConnected(connected, running, websocket)
       THEN /\ rcvOut' = [rcvOut EXCEPT ![i] = nextMsg]
            /\ rcvPc' = [rcvPc EXCEPT ![i] = "cbsend"]
            /\ UNCHANGED fate
       ELSE /\ fate' = [fate EXCEPT ![nextMsg] = "nolink"]
            /\ UNCHANGED <<rcvOut, rcvPc>>
  /\ UNCHANGED dispVars
  /\ UNCHANGED <<clientVars, supPc, rcvWs, rcvMsg, sndPc, sndMsg, mainPc, stopPc,
                 netVars, callState, written, failed, discarded, handled, fails,
                 lastWait, connects>>

\* ws_client.py:157-162, send_message called by the reporter
\* (progress_reporter.py:46)
RcvEmitSend(i) ==
  /\ rcvPc[i] = "cbsend"
  /\ LET m == rcvOut[i] IN
       /\ callState' = [callState EXCEPT
                          ![m] = IF connected /\ running THEN "up" ELSE "down"]
       /\ IF SendAccepts(connected, running)
            THEN /\ message_queue' = Append(message_queue, m)
                 /\ fate' = [fate EXCEPT ![m] = "queued"]
            ELSE /\ fate' = [fate EXCEPT ![m] = "refused"]
                 /\ UNCHANGED message_queue
  /\ rcvOut' = [rcvOut EXCEPT ![i] = 0]
  /\ rcvPc' = [rcvPc EXCEPT ![i] = "cb"]
  /\ UNCHANGED dispVars
  /\ UNCHANGED <<running, connected, websocket, message_callback, receiver_thread,
                 sender_thread, client_thread, supPc, rcvWs, rcvMsg, sndPc, sndMsg,
                 mainPc, stopPc, netVars, nextMsg, written, failed, discarded,
                 handled, fails, lastWait, connects>>

\* the callback returns; the loop continues
RcvCbReturn(i) ==
  /\ rcvPc[i] = "cb"
  /\ rcvPc' = [rcvPc EXCEPT ![i] = "loop"]
  /\ rcvMsg' = [rcvMsg EXCEPT ![i] = 0]
  /\ UNCHANGED dispVars
  /\ UNCHANGED <<clientVars, supPc, rcvWs, rcvOut, sndPc, sndMsg, mainPc, stopPc,
                 netVars, histVars>>

\* mutant: an error of the callback leaves the connection state alone
AfterCallbackErrorKept(c) == c

\* ws_client.py:71-73, `except Exception`: the connection state after an
\* error of the callback, as after an error of the transport
AfterCallbackError(c) == FALSE

\* ws_client.py:71-74, the callback raises
RcvCbRaise(i) ==
  /\ rcvPc[i] = "cb"
  /\ connected' = AfterCallbackError(connected)
  /\ rcvPc' = [rcvPc EXCEPT ![i] = "exit"]
  /\ rcvMsg' = [rcvMsg EXCEPT ![i] = 0]
  /\ UNCHANGED dispVars
  /\ UNCHANGED <<running, websocket, message_callback, message_queue,
                 receiver_thread, sender_thread, client_thread, supPc, rcvWs,
                 rcvOut, sndPc, sndMsg, mainPc, stopPc, netVars, histVars>>

\* the thread function has left its loop and the thread ends
RcvExit(i) ==
  /\ rcvPc[i] = "exit"
  /\ rcvPc' = [rcvPc EXCEPT ![i] = "dead"]
  /\ UNCHANGED dispVars
  /\ UNCHANGED <<clientVars, supPc, rcvWs, rcvMsg, rcvOut, sndPc, sndMsg, mainPc,
                 stopPc, netVars, histVars>>

----------------------------------------------------------------------------
(* The sender thread: _send_messages.                                      *)

\* mutant: the message whose send raised is not put back
RequeueDropped(q, m) == q

\* ws_client.py:92/96/100/104, the message whose send raised is put back
Requeue(q, m) == Append(q, m)

\* ws_client.py:83-86 and 105-108, one round of the loop up to the send:
\* the loop ends when running is false; when connected, the head of the
\* queue is taken (queue.get) or, the queue being empty, get times out and
\* the loop goes round; when not connected the thread sleeps and goes round.
\* Nothing is written between the test at :85 and the get at :86, so the
\* two are one step.
SndLoop(j) ==
  /\ sndPc[j] = "loop"
  /\ IF ~KeepRunning(running)
       THEN /\ sndPc' = [sndPc EXCEPT ![j] = "dead"]
            /\ UNCHANGED <<sndMsg, message_queue>>
       ELSE IF connected /\ websocket # 0 /\ message_queue # <<>>
         THEN /\ sndMsg' = [sndMsg EXCEPT ![j] = Head(message_queue)]
              /\ message_queue' = Tail(message_queue)
              /\ sndPc' = [sndPc EXCEPT ![j] = "send"]
         ELSE UNCHANGED <<sndPc, sndMsg, message_queue>>
  /\ UNCHANGED dispVars
  /\ UNCHANGED <<running, connected, websocket, message_callback, receiver_thread,
                 sender_thread, client_thread, supPc, rcvPc, rcvWs, rcvMsg, rcvOut,
                 mainPc, stopPc, netVars, histVars>>

\* ws_client.py:88, the transport accepts the message
SndSendOk(j) ==
  /\ sndPc[j] = "send"
  /\ websocket \in open
  /\ written' = Append(written, sndMsg[j])
  /\ sndMsg' = [sndMsg EXCEPT ![j] = 0]
  /\ sndPc' = [sndPc EXCEPT ![j] = "loop"]
  /\ UNCHANGED dispVars
  /\ UNCHANGED <<clientVars, supPc, rcvPc, rcvWs, rcvMsg, rcvOut, mainPc, stopPc,
                 netVars, nextMsg, fate, callState, failed, discarded, handled,
                 fails, lastWait, connects>>

\* ws_client.py:89-104, websocket.send raises (closed, or self.websocket None)
SndSendFail(j) ==
  /\ sndPc[j] = "send"
  /\ websocket \notin open
  /\ connected' = FALSE
  /\ message_queue' = Requeue(message_queue, sndMsg[j])
  /\ failed' = failed \cup {sndMsg[j]}
  /\ sndMsg' = [sndMsg EXCEPT ![j] = 0]
  /\ sndPc' = [sndPc EXCEPT ![j] = "loop"]
  /\ UNCHANGED dispVars
  /\ UNCHANGED <<running, websocket, message_callback, receiver_thread,
                 sender_thread, client_thread, supPc, rcvPc, rcvWs, rcvMsg, rcvOut,
                 mainPc, stopPc, netVars, nextMsg, fate, callState, written,
                 discarded, handled, fails, lastWait, connects>>

----------------------------------------------------------------------------
(* The transport: the server or the network closes a connection.           *)

NetClose ==
  /\ faults < MaxFaults
  /\ \E c \in open : open' = open \ {c}
  /\ faults' = faults + 1
  /\ UNCHANGED dispVars
  /\ UNCHANGED <<clientVars, threadVars, nextIn, histVars>>

----------------------------------------------------------------------------
(* WebSocketClient.stop, called once by some thread of the embedding       *)
(* program.                                                                *)

\* ws_client.py:227-232, what the drain leaves of the queue
Drained(q) == <<>>

\* ws_client.py:209-210
StopFlags ==
  /\ stopPc = "none"
  /\ mainPc = "loop"
  /\ running' = FALSE
  /\ connected' = FALSE
  /\ stopPc' = "close"
  /\ UNCHANGED dispVars
  /\ UNCHANGED <<websocket, message_callback, message_queue, receiver_thread,
                 sender_thread, client_thread, supPc, rcvPc, rcvWs, rcvMsg, rcvOut,
                 sndPc, sndMsg, mainPc, netVars, histVars>>

\* ws_client.py:212-225
StopClose ==
  /\ stopPc = "close"
  /\ websocket' = 0
  /\ open' = (open \ {websocket}) \cap Referenced(0, rcvPc, rcvWs)
  /\ stopPc' = "drain"
  /\ UNCHANGED dispVars
  /\ UNCHANGED <<running, connected, message_callback, message_queue,
                 receiver_thread, sender_thread, client_thread, supPc, rcvPc,
                 rcvWs, rcvMsg, rcvOut, sndPc, sndMsg, mainPc, nextIn, faults,
                 histVars>>

\* ws_client.py:227-234
StopDrain ==
  /\ stopPc = "drain"
  /\ discarded' = discarded \cup (Range(message_queue) \ Range(Drained(message_queue)))
  /\ message_queue' = Drained(message_queue)
  /\ stopPc' = "done"
  /\ UNCHANGED dispVars
  /\ UNCHANGED <<running, connected, websocket, message_callback, receiver_thread,
                 sender_thread, client_thread, supPc, rcvPc, rcvWs, rcvMsg, rcvOut,
                 sndPc, sndMsg, mainPc, netVars, nextMsg, fate, callState, written, failed,
                 handled, fails, lastWait, connects>>

----------------------------------------------------------------------------
(* Specifications of the channel client.                                   *)

vars == <<chanVars, dispVars>>

Main == MainRegister \/ MainStart

Supervisor ==
  \E s \in SupIds :
    SupLoop(s) \/ SupConnectOk(s) \/ SupConnectFail(s) \/ SupStartReceiver(s)
      \/ SupStartSender(s)

Receiver ==
  \E i \in RcvIds :
    RcvLoop(i) \/ RcvMessage(i) \/ RcvTimeout(i) \/ RcvClosed(i)
      \/ RcvInvoke(i) \/ RcvEmitBegin(i) \/ RcvEmitSend(i) \/ RcvCbReturn(i)
      \/ RcvCbRaise(i) \/ RcvExit(i)

Sender == \E j \in SndIds : SndLoop(j) \/ SndSendOk(j) \/ SndSendFail(j)

Stop == StopFlags \/ StopClose \/ StopDrain

\* the program as main() runs it: one start(), no stop()
Next == Main \/ Supervisor \/ Receiver \/ Sender \/ NetClose

\* no message is being dispatched
NoMessage ==
  [kind |-> "none", action |-> "absent", service |-> "absent", tag |-> FALSE,
   s3_url |-> FALSE, checksum |-> FALSE, yaml |-> FALSE]

\* no call of stop_docker_services, or one that issued no command
NoCommands == [removals |-> FALSE, timeout |-> FALSE]

\* no manifest: nothing downloaded, loaded or stored
NoYaml == [ver |-> 0, services |-> FALSE]

\* stop_docker_services has not returned
NoResult == [success |-> FALSE, stopped |-> <<>>, failed |-> <<>>, message |-> "none"]

\* no call of stop_docker_services on several services is under way
StageIdle ==
  /\ services = <<>>
  /\ stagePc = "idle"
  /\ runs = <<>>
  /\ stopped_services = <<>>
  /\ failed_services = <<>>
  /\ stopReturn = NoResult

\* the container names of the model
Names == {"om1", "om1_sensor", "ota_agent"}

\* main.py:43-54: the descriptions AgentOTA is constructed with
Builtin == {"om1", "om1_sensor"}

\* the background threads of the agent are not running
AgentIdle ==
  /\ container_descriptions = Builtin
  /\ infoPc = "idle"
  /\ statusPc = "idle"
  /\ psOut = {}
  /\ pending = {}
  /\ found_containers = {}
  /\ missing_containers = {}
  /\ snapshots = {}

Init ==
  /\ InitChannel
  /\ dMsg = NoMessage
  /\ dPc = "idle"
  /\ emitted = <<>>
  /\ ops = <<>>
  /\ stopCmds = NoCommands
  /\ yaml = NoYaml
  /\ found = 0
  /\ layers = 0
  /\ lines = 0
  /\ latest = NoYaml
  /\ tagged = {}
  /\ storeBefore = [latest |-> NoYaml, tagged |-> {}]
  /\ applied = NoYaml
  /\ live = 0
  /\ liveBefore = 0
  /\ exited = FALSE
  /\ exitedBefore = FALSE
  /\ stoppedOk = FALSE
  /\ dispatched = 0
  /\ StageIdle
  /\ AgentIdle

Spec == Init /\ [][Next]_vars

\* the same program under a fair scheduler: every thread that can take a
\* step eventually takes one.  The network and the server are not fair;
\* they fail at most MaxFaults times.
FairSpec ==
  /\ Spec
  /\ WF_vars(Supervisor)
  /\ WF_vars(Sender)

\* the client as a library: stop() may be called once after start()
NextStop == Next \/ Stop

SpecStop == Init /\ [][NextStop]_vars

FairSpecStop ==
  /\ SpecStop
  /\ WF_vars(Main)
  /\ WF_vars(Supervisor)
  /\ WF_vars(Receiver)
  /\ WF_vars(Sender)
  /\ WF_vars(StopClose \/ StopDrain)

\* the client as a library: start() may be called again after start()
NextRestart == Next \/ StartAgain

SpecRestart == Init /\ [][NextRestart]_vars

----------------------------------------------------------------------------
(* Outbound delivery.                                                      *)

Queued(m) == fate[m] = "queued"

InQueue(m) == m \in Range(message_queue)

InFlight(m) == \E j \in SndIds : sndPc[j] = "send" /\ sndMsg[j] = m

Written(m) == m \in Range(written)

\* C1: a message whose send raised is not lost.  While the client runs,
\* every message accepted into the outbound queue is in the queue, in the
\* hands of the sender thread, or written to the transport; and once the
\* network stops failing every accepted message is eventually written
\* (again and again a state is reached in which all accepted messages have
\* been written).
C1_NoLossAndRedelivery ==
  /\ [](\A m \in Msgs : Queued(m) => (InQueue(m) \/ InFlight(m) \/ Written(m)))
  /\ []<>(\A m \in Msgs : Queued(m) => Written(m))

\* a message whose send raised was written after the reconnect
C1_Witness == \E m \in Msgs : m \in failed /\ Written(m)

\* C2: the transport receives the messages in the order they were enqueued
\* (updates are numbered in the order the callback emits them), also when a
\* send raised and the message was put back.
C2_FifoAcrossReconnect ==
  \A a, b \in 1..Len(written) : a < b => written[a] < written[b]

Settled ==
  /\ connected
  /\ websocket \in open
  /\ message_queue = <<>>
  /\ \A j \in SndIds : sndPc[j] # "send"
  /\ \A i \in RcvIds : rcvPc[i] # "cbsend"

AllLoopsStopped ==
  /\ \A s \in SupIds : ~IsAlive(supPc[s])
  /\ \A i \in RcvIds : ~IsAlive(rcvPc[i])
  /\ \A j \in SndIds : ~IsAlive(sndPc[j])

\* updates the sender tried to write at least once
Attempted == failed \cup Range(written)

\* C5, as stated: a message that stop() removes from the queue has had a
\* delivery attempt on the transport before.
C5_DiscardedWereAttempted == discarded \subseteq Attempted

\* C5, amended: after stop() the supervisory, receiver and sender loops all
\* end; what stop() removes from the queue is never written to the
\* transport, and stop() makes no delivery attempt for it.
C5_StopsLoopsAndDiscards ==
  /\ (stopPc = "done") ~> AllLoopsStopped
  /\ [](discarded \cap Range(written) = {})
  /\ [][stopPc' # stopPc => (written' = written /\ failed' = failed)]_vars

\* stop() has discarded a message that was never tried, and all loops ended
C5_Witness ==
  /\ stopPc = "done"
  /\ AllLoopsStopped
  /\ \E m \in discarded : m \notin Attempted

\* C6: while the client runs, a disconnected client is eventually connected
\* again, and after every failed attempt the supervisor waits the same
\* RETRY_INTERVAL, however many attempts failed in a row.
C6_ReconnectsAtFixedInterval ==
  /\ (client_thread # 0 /\ ~connected) ~> connected
  /\ [](fails > 0 => lastWait = RETRY_INTERVAL)

\* the connection was lost and established again after two failed attempts
C6_Witness == connected /\ connects >= 2 /\ fails >= 2

\* C7: whenever the client is connected and no connect() is in progress, a
\* receiver thread and a sender thread are alive.
C7_LoopsAliveWhenConnected ==
  (connected /\ \A s \in SupIds : supPc[s] \notin {"rthread", "sthread"})
    => /\ \E i \in RcvIds : IsAlive(rcvPc[i])
       /\ \E j \in SndIds : IsAlive(sndPc[j])

\* C8: at most one supervisory thread is alive, however often start() is
\* called.
C8_SingleSupervisor == Cardinality({s \in SupIds : IsAlive(supPc[s])}) <= 1

\* C9: the callback is entered exactly once for each message recv()
\* returned, in the order of receipt (inbound messages are numbered in the
\* order recv() returns them): the messages handed to the callback are
\* 1, 2, .. without gap or repetition, and every received message is handed
\* over or still held by the receiver that received it.
C9_HandledOnceInOrder ==
  /\ \A k \in 1..Len(handled) : handled[k] = k
  /\ Len(handled) + Cardinality({i \in RcvIds : rcvPc[i] = "got"}) = nextIn - 1

\* two messages were handed over, the second on a later connection
C9_Witness == Len(handled) >= 2 /\ connects >= 2


----------------------------------------------------------------------------
(* Part II.  The command dispatcher: BaseOTA.ota_process, the handlers of  *)
(* ActionHandlers it routes to, DockerManager and FileManager.  Messages   *)
(* are dispatched one after the other; the outcomes of the download, of    *)
(* the container engine and of the state store are chosen by the           *)
(* environment.  One service is managed; an upgrade carries a manifest of  *)
(* a new version.                                                          *)

\* a field of the parsed object: absent, an empty string, or a value
Falsy(v) == v \in {"absent", "empty"}

Actions == {"absent", "empty", "upgrade", "stop", "start", "other"}
Services == {"absent", "empty", "svc"}

\* the messages the dispatcher is exercised with: bytes, text that is not
\* JSON, JSON that is not an object, and objects with every combination of
\* action and service_name and of the fields the handler of the action
\* reads (tag, s3_url and checksum for upgrade, yaml_content for start)
DispatchInputs ==
  {[kind |-> k, action |-> "absent", service |-> "absent", tag |-> FALSE,
    s3_url |-> FALSE, checksum |-> FALSE, yaml |-> FALSE] :
      k \in {"bytes", "badjson", "nonobject"}}
  \cup
  {m \in [kind : {"object"}, action : Actions, service : Services, tag : BOOLEAN,
          s3_url : BOOLEAN, checksum : BOOLEAN, yaml : BOOLEAN] :
     /\ m.action # "upgrade" => (~m.tag /\ ~m.s3_url /\ ~m.checksum)
     /\ m.action # "start" => ~m.yaml}

Update(status, progress) == [status |-> status, progress |-> progress]

\* an external operation and how it ended
Op(name, res) == [op |-> name, res |-> res]

\* the version of the manifest the current message brings
NewVer == dispatched + 1

\* mutant: a start command is routed to the rollout of an upgrade
DispatchStartApplies(msg) ==
  CASE msg.kind = "bytes" ->
         [pc |-> "done", updates |-> <<Update("error_message", 0)>>]
    [] msg.kind = "badjson" ->
         [pc |-> "done", updates |-> <<Update("decode_error", 0)>>]
    [] msg.kind = "nonobject" ->
         [pc |-> "raised", updates |-> <<>>]
    [] OTHER ->
         IF Falsy(msg.action) THEN [pc |-> "done", updates |-> <<>>]
         ELSE IF Falsy(msg.service) THEN [pc |-> "done", updates |-> <<>>]
         ELSE IF msg.action = "upgrade" THEN [pc |-> "upgrade", updates |-> <<>>]
         ELSE IF msg.action = "stop" THEN [pc |-> "stop", updates |-> <<>>]
         ELSE IF msg.action = "start" THEN [pc |-> "apply", updates |-> <<>>]
         ELSE [pc |-> "done", updates |-> <<Update("error", 0)>>]

\* a message that is not JSON is dropped without an update
DispatchDecodeSilent(msg) ==
  CASE msg.kind = "bytes" ->
         [pc |-> "done", updates |-> <<Update("error_message", 0)>>]
    [] msg.kind = "badjson" ->
         [pc |-> "done", updates |-> <<>>]
    [] msg.kind = "nonobject" ->
         [pc |-> "raised", updates |-> <<>>]
    [] OTHER ->
         IF Falsy(msg.action) THEN [pc |-> "done", updates |-> <<>>]
         ELSE IF Falsy(msg.service) THEN [pc |-> "done", updates |-> <<>>]
         ELSE IF msg.action = "upgrade" THEN [pc |-> "upgrade", updates |-> <<>>]
         ELSE IF msg.action = "stop" THEN [pc |-> "stop", updates |-> <<>>]
         ELSE IF msg.action = "start" THEN [pc |-> "start", updates |-> <<>>]
         ELSE [pc |-> "done", updates |-> <<Update("error", 0)>>]

\* ota.py:78-121: where ota_process goes for a message, and what it reports
\* before it gets there
Dispatch(msg) ==
  CASE msg.kind = "bytes" ->
         [pc |-> "done", updates |-> <<Update("error_message", 0)>>]
    [] msg.kind = "badjson" ->
         [pc |-> "done", updates |-> <<Update("decode_error", 0)>>]
    [] msg.kind = "nonobject" ->
         [pc |-> "raised", updates |-> <<>>]
    [] OTHER ->
         IF Falsy(msg.action) THEN [pc |-> "done", updates |-> <<>>]
         ELSE IF Falsy(msg.service) THEN [pc |-> "done", updates |-> <<>>]
         ELSE IF msg.action = "upgrade" THEN [pc |-> "upgrade", updates |-> <<>>]
         ELSE IF msg.action = "stop" THEN [pc |-> "stop", updates |-> <<>>]
         ELSE IF msg.action = "start" THEN [pc |-> "start", updates |-> <<>>]
         ELSE [pc |-> "done", updates |-> <<Update("error", 0)>>]

\* BaseOTA.ota_process
OtaProcess ==
  /\ dPc = "recv"
  /\ dPc' = Dispatch(dMsg).pc
  /\ emitted' = emitted \o Dispatch(dMsg).updates
  /\ UNCHANGED <<dMsg, ops, stopCmds, yaml, pullVars, worldVars, dispatched, chanVars, stageVars, agentVars>>

\* ws_client.py:52-55: the receiver hands the next inbound message to the
\* callback once the previous call has returned or raised (after a raise, on
\* the next connection)
NextMessage ==
  /\ dPc \in {"done", "raised"}
  /\ dispatched < MaxDispatches
  /\ dMsg' \in DispatchInputs
  /\ dPc' = "recv"
  /\ emitted' = <<>>
  /\ ops' = <<>>
  /\ stopCmds' = NoCommands
  /\ yaml' = NoYaml
  /\ found' = 0
  /\ layers' = 0
  /\ lines' = 0
  /\ liveBefore' = live
  /\ exitedBefore' = exited
  /\ storeBefore' = [latest |-> latest, tagged |-> tagged]
  /\ stoppedOk' = (/\ Op("stop_services", "ok") \in Range(ops)
                   /\ Op("up", "ok") \notin Range(ops))
  /\ dispatched' = dispatched + 1
  /\ UNCHANGED <<latest, tagged, applied, live, exited, chanVars, stageVars, agentVars>>

\* mutant: only the tag is required
OnlyTagRequired(msg) == ~msg.tag

\* action_handlers.py:51, `not tag or not s3_url or not checksum`
UpgradeFieldsMissing(msg) == ~msg.tag \/ ~msg.s3_url \/ ~msg.checksum

\* action_handlers.py:47-62
UpgradeCheck ==
  /\ dPc = "upgrade"
  /\ IF UpgradeFieldsMissing(dMsg)
       THEN /\ emitted' = Append(emitted, Update("error", 0))
            /\ dPc' = "done"
       ELSE /\ dPc' = "download"
            /\ UNCHANGED emitted
  /\ UNCHANGED <<dMsg, ops, stopCmds, yaml, pullVars, worldVars, dispatched, chanVars, stageVars, agentVars>>

DownloadOutcomes == {"ok", "download_error", "checksum_mismatch"}

\* S3FileDownloader.download_and_verify_yaml: the manifest and the local
\* path are both returned only when the artifact was downloaded and its
\* checksum matches (it fails closed)
DownloadAndVerify(o) ==
  IF o = "ok" THEN [content |-> TRUE, path |-> TRUE]
              ELSE [content |-> FALSE, path |-> FALSE]

\* mutant: the result of the download is not examined
DownloadUsableAlways(res) == TRUE

\* action_handlers.py:69, `if yaml_content and local_file_path`
DownloadUsable(res) == res.content /\ res.path

\* action_handlers.py:64-84
UpgradeDownload ==
  /\ dPc = "download"
  /\ \E o \in DownloadOutcomes, sv \in BOOLEAN :
       /\ ops' = Append(ops, Op("download", o))
       /\ IF DownloadUsable(DownloadAndVerify(o))
            THEN /\ yaml' = [ver |-> NewVer, services |-> sv]
                 /\ dPc' = "apply"
                 /\ UNCHANGED emitted
            ELSE /\ emitted' = Append(emitted, Update("download_error", 0))
                 /\ dPc' = "done"
                 /\ UNCHANGED yaml
  /\ UNCHANGED <<dMsg, stopCmds, pullVars, worldVars, dispatched, chanVars, stageVars, agentVars>>

\* how a stage ends.  stop_docker_services, store_update_files,
\* start_docker_services and cleanup_old_images catch every exception and
\* return a failure (docker_operations.py:207-209, 460-465, 583-587;
\* file_manager.py:67-73), so the handlers' own `except Exception`
\* (action_handlers.py:123, 173, 244) is not reached from them
Outcomes == {"ok", "fail"}

Max(S) == CHOOSE x \in S : \A y \in S : y <= x

\* mutant: the result of a stage is not examined
StageFailedNever(res) == FALSE

\* `if not <stage>_result.get("success")` (action_handlers.py:211, 224, 232;
\* docker_operations.py:398)
StageFailed(res) == res # "ok"

\* how the engine answers one command run with subprocess.run: return code
\* 0, another return code, or no answer within the timeout of the call
Replies == {"ok", "err", "timeout"}

\* the answers of the engine to the commands of one stop_docker_services
\* call: `docker ps -q`, `docker stop`, `docker rm`, `docker kill`,
\* `docker rm -f` and `docker ps -a -q`
EngineReplies ==
  [check : Replies, stop : Replies, rm : Replies, kill : Replies, rmf : Replies,
   checkall : Replies]

\* the container of the service: running, stopped but not removed, or absent
Container(lv, ex) == IF lv # 0 THEN "running" ELSE IF ex THEN "exited" ELSE "absent"

\* one run of the loop body of stop_docker_services: the commands issued,
\* whether the service was added to failed_services, the container
\* afterwards, whether the container was added to stopped_services
StopRun(cs, f, c) == [cmds |-> cs, failed |-> f, c |-> c, stopped |-> FALSE]

\* docker_operations.py:82, 104, 139: the last removal of the chain answered
\* 0: the container is gone and is added to stopped_services
StoppedRun(cs) == [cmds |-> cs, failed |-> FALSE, c |-> "absent", stopped |-> TRUE]

\* docker_operations.py:185-187: a command that does not answer within its
\* timeout raises TimeoutExpired, which lists the service as failed
TimedOut(cs, c) == StopRun(Append(cs, "timeout"), TRUE, c)

\* docker_operations.py:51-191: the loop body of stop_docker_services for the
\* container of the service.  A command that answers 0 has its effect (stop
\* and kill leave the container stopped, rm and rm -f remove it); a command
\* that fails or times out has none.
StopContainer(c, e) ==
  IF e.check = "timeout" THEN TimedOut(<<"ps">>, c)
  ELSE IF e.check = "ok" /\ c = "running"
    THEN IF e.stop = "timeout" THEN TimedOut(<<"ps", "stop">>, c)
         ELSE IF e.stop = "ok"
           THEN IF e.rm = "timeout"
                  THEN TimedOut(<<"ps", "stop", "rm">>, "exited")
                ELSE IF e.rm = "ok"
                  THEN StoppedRun(<<"ps", "stop", "rm">>)
                ELSE IF e.rmf = "timeout"
                  THEN TimedOut(<<"ps", "stop", "rm", "rm_f">>, "exited")
                ELSE IF e.rmf = "ok"
                  THEN StoppedRun(<<"ps", "stop", "rm", "rm_f">>)
                ELSE StopRun(<<"ps", "stop", "rm", "rm_f">>, TRUE, "exited")
           ELSE IF e.kill = "timeout"
                  THEN TimedOut(<<"ps", "stop", "kill">>, c)
                ELSE IF e.kill = "ok"
                  THEN IF e.rmf = "timeout"
                         THEN TimedOut(<<"ps", "stop", "kill", "rm_f">>, "exited")
                       ELSE IF e.rmf = "ok"
                         THEN StoppedRun(<<"ps", "stop", "kill", "rm_f">>)
                       ELSE StopRun(<<"ps", "stop", "kill", "rm_f">>, TRUE, "exited")
                ELSE StopRun(<<"ps", "stop", "kill">>, TRUE, c)
    ELSE IF e.checkall = "timeout" THEN TimedOut(<<"ps", "ps_a">>, c)
         ELSE IF e.checkall = "ok" /\ c # "absent"
           THEN IF e.rmf = "timeout"
                  THEN TimedOut(<<"ps", "ps_a", "rm_f">>, c)
                ELSE IF e.rmf = "ok"
                  THEN StopRun(<<"ps", "ps_a", "rm_f">>, FALSE, "absent")
                ELSE StopRun(<<"ps", "ps_a", "rm_f">>, FALSE, c)
           ELSE StopRun(<<"ps", "ps_a">>, FALSE, c)

\* the engine commands that stop or remove a container
Removals == {"stop", "kill", "rm", "rm_f"}

\* what is recorded of the commands of one stop_docker_services call:
\* whether a stop, kill or remove was among them, and whether one timed out
Issued(cs) ==
  [removals |-> Range(cs) \cap Removals # {}, timeout |-> "timeout" \in Range(cs)]

\* docker_operations.py:193-205: the result of stop_docker_services
StopResult(run) == IF run.failed THEN "fail" ELSE "ok"

(* stop_docker_services on a manifest of several services                  *)
(* (docker_operations.py:27-209): the loop over the services, one          *)
(* iteration per step, and the return.  The containers the call finds and  *)
(* the answers of the engine are chosen by the environment.                *)

\* the container of a service when the call begins
Containers == {"running", "exited", "absent"}

\* the field of EngineReplies that answers each command
ReplyField ==
  [ps |-> "check", stop |-> "stop", rm |-> "rm", kill |-> "kill",
   rm_f |-> "rmf", ps_a |-> "checkall"]

\* the engine commands of a run, without the mark of a timeout
Commands(cs) == SelectSeq(cs, LAMBDA c : c # "timeout")

\* the answer the engine gave to each command of a run
Answers(cs, e) == [k \in 1..Len(Commands(cs)) |-> e[ReplyField[Commands(cs)[k]]]]

\* docker_operations.py:51-191: one iteration of the loop.  An iteration
\* that fails or times out is caught at lines 186-191 and the loop goes on
\* with the next service.
StopService ==
  /\ stagePc = "loop"
  /\ Len(runs) < Len(services)
  /\ \E e \in EngineReplies :
       LET i == Len(runs) + 1
           run == StopContainer(services[i], e)
       IN
       /\ runs' = Append(runs, [before |-> services[i],
                                cmds |-> Commands(run.cmds),
                                answers |-> Answers(run.cmds, e),
                                after |-> run.c])
       /\ stopped_services' =
            IF run.stopped THEN Append(stopped_services, i) ELSE stopped_services
       /\ failed_services' =
            IF run.failed THEN Append(failed_services, i) ELSE failed_services
  /\ UNCHANGED <<services, stagePc, stopReturn, rolloutVars, chanVars, agentVars>>

\* docker_operations.py:44-46 and 193-205: the dict returned
StopReturn ==
  /\ stagePc = "loop"
  /\ Len(runs) = Len(services)
  /\ stopReturn' =
       IF services = <<>>
         THEN [success |-> TRUE, stopped |-> <<>>, failed |-> <<>>,
               message |-> "No services to stop"]
       ELSE IF failed_services # <<>>
         THEN [success |-> FALSE, stopped |-> stopped_services,
               failed |-> failed_services, message |-> "Failed to stop services"]
       ELSE [success |-> TRUE, stopped |-> stopped_services, failed |-> <<>>,
             message |-> "Successfully stopped"]
  /\ stagePc' = "returned"
  /\ UNCHANGED <<services, runs, stopped_services, failed_services,
                 rolloutVars, chanVars, agentVars>>

NextStopStage == StopService \/ StopReturn

InitStopStage ==
  /\ InitChannel
  /\ dMsg = NoMessage
  /\ dPc = "idle"
  /\ emitted = <<>>
  /\ ops = <<>>
  /\ stopCmds = NoCommands
  /\ yaml = NoYaml
  /\ found = 0
  /\ layers = 0
  /\ lines = 0
  /\ latest = NoYaml
  /\ tagged = {}
  /\ storeBefore = [latest |-> NoYaml, tagged |-> {}]
  /\ applied = NoYaml
  /\ live = 0
  /\ liveBefore = 0
  /\ exited = FALSE
  /\ exitedBefore = FALSE
  /\ stoppedOk = FALSE
  /\ dispatched = 0
  /\ \E n \in 0..MaxServices : services \in [1..n -> Containers]
  /\ stagePc = "loop"
  /\ runs = <<>>
  /\ stopped_services = <<>>
  /\ failed_services = <<>>
  /\ stopReturn = NoResult
  /\ AgentIdle

SpecStopStage == InitStopStage /\ [][NextStopStage]_vars

\* the temporary file is removed only after a rollout that succeeded
AfterApplyOnSuccess(ok) == IF ok THEN "cleanup" ELSE "done"

\* action_handlers.py:75-77: handle_upgrade_action does not look at what
\* apply_ota_update returned and goes on to cleanup_temp_file
AfterApply(ok) == "cleanup"

\* action_handlers.py:199-215.  A manifest without services stops nothing
\* (docker_operations.py:42-46).
ApplyStop ==
  /\ dPc = "apply"
  /\ \E e \in EngineReplies :
       LET run == IF yaml.services
                    THEN StopContainer(Container(live, exited), e)
                    ELSE StopRun(<<>>, FALSE, Container(live, exited))
           r == StopResult(run)
       IN
       /\ ops' = IF yaml.services THEN Append(ops, Op("stop_services", r)) ELSE ops
       /\ stopCmds' = Issued(run.cmds)
       /\ live' = IF run.c = "running" THEN live ELSE 0
       /\ exited' = (run.c = "exited")
       /\ emitted' = emitted \o <<Update("starting", 0), Update("stopping", 10)>>
                       \o (IF StageFailed(r) THEN <<Update("error", 10)>> ELSE <<>>)
       /\ dPc' = IF StageFailed(r) THEN AfterApply(FALSE) ELSE "store"
  /\ UNCHANGED <<dMsg, yaml, pullVars, storeVars, applied, liveBefore,
                 exitedBefore, stoppedOk, dispatched, chanVars, stageVars, agentVars>>

\* file_manager.py:54-55: how the two copies of store_update_files end: both
\* are made, the copy to the tagged file raises, or the tagged copy is made
\* and the copy to the latest file raises
StoreOutcomes == {"ok", "fail_tagged", "fail_latest"}

\* file_manager.py:54: the tagged files after the first copy
StoredTagged(r, old, ver) == IF r = "fail_tagged" THEN old ELSE old \cup {ver}

\* file_manager.py:55: the latest file is written by the second copy, which
\* is reached when the first one did not raise
Stored(r, old, new) == IF r = "ok" THEN new ELSE old

\* mutant: a failure of the second copy is not reported
StoreSucceededUnlessTagged(r) == r # "fail_tagged"

\* file_manager.py:54-73: success is returned after both copies, a failure
\* when either raised
StoreSucceeded(r) == r = "ok"

\* action_handlers.py:217-228
ApplyStore ==
  /\ dPc = "store"
  /\ \E r \in StoreOutcomes :
       LET res == IF StoreSucceeded(r) THEN "ok" ELSE "fail" IN
       /\ ops' = Append(ops, Op("store", r))
       /\ tagged' = StoredTagged(r, tagged, yaml.ver)
       /\ latest' = Stored(r, latest, yaml)
       /\ emitted' = emitted \o <<Update("storing", 20)>>
                       \o (IF StageFailed(res) THEN <<Update("error", 20)>> ELSE <<>>)
       /\ dPc' = IF StageFailed(res) THEN AfterApply(FALSE) ELSE "startsvc"
  /\ UNCHANGED <<dMsg, stopCmds, yaml, pullVars, storeBefore, applied, engineVars,
                 dispatched, chanVars, stageVars, agentVars>>

\* docker_operations.py:379-393: start_docker_services up to the pull.  A
\* manifest without services is a success; create_temp_compose_file may
\* raise, which the function turns into a failure ("fail").
StartServices ==
  /\ dPc = "startsvc"
  /\ IF ~yaml.services
       THEN /\ dPc' = "startok"
            /\ UNCHANGED <<emitted, ops>>
       ELSE \E r \in Outcomes :
              IF r = "ok"
                THEN /\ emitted' = Append(emitted, Update("pulling", 30))
                     /\ dPc' = "pull"
                     /\ UNCHANGED ops
                ELSE /\ ops' = Append(ops, Op("compose_file", r))
                     /\ dPc' = "startfail"
                     /\ UNCHANGED emitted
  /\ found' = 0
  /\ layers' = 0
  /\ lines' = 0
  /\ UNCHANGED <<dMsg, stopCmds, yaml, worldVars, dispatched, chanVars, stageVars, agentVars>>

\* docker_operations.py:239: services_pulled is created empty and nothing
\* is ever added to it
ServicesPulled == 0

\* docker_operations.py:259-261
PullingProgress(pulled, fnd) == 30 + ((pulled * 40) \div Max({fnd, 1}))

\* docker_operations.py:276
LayerProgress(n) == 30 + Min({n * 5, 40})

\* docker_operations.py:290-294
DownloadingProgress(pulled, fnd) ==
  35 + ((pulled * 35) \div Max({IF fnd = 0 THEN 1 ELSE fnd, 1}))

\* docker_operations.py:305-309
ExtractingProgress(pulled, fnd) ==
  50 + ((pulled * 20) \div Max({IF fnd = 0 THEN 1 ELSE fnd, 1}))

LineKinds == {"pulling", "complete", "downloading", "extracting", "other"}

\* docker_operations.py:245-314: one line of the pull's output.  A line
\* names a service or layer seen before (fresh = FALSE) or a new one.
PullLine ==
  /\ dPc = "pull"
  /\ lines < MaxPullLines
  /\ lines' = lines + 1
  /\ \E kind \in LineKinds, fresh \in BOOLEAN :
       CASE kind = "pulling" ->
              /\ fresh \/ found > 0
              /\ found' = IF fresh THEN found + 1 ELSE found
              /\ emitted' = Append(emitted,
                   Update("pulling_service", PullingProgress(ServicesPulled, found')))
              /\ UNCHANGED layers
         [] kind = "complete" ->
              /\ fresh \/ layers > 0
              /\ layers' = IF fresh THEN layers + 1 ELSE layers
              /\ emitted' = Append(emitted,
                   Update("layer_complete", LayerProgress(layers')))
              /\ UNCHANGED found
         [] kind = "downloading" ->
              /\ fresh
              /\ emitted' = Append(emitted,
                   Update("downloading", DownloadingProgress(ServicesPulled, found)))
              /\ UNCHANGED <<found, layers>>
         [] kind = "extracting" ->
              /\ fresh
              /\ emitted' = Append(emitted,
                   Update("extracting", ExtractingProgress(ServicesPulled, found)))
              /\ UNCHANGED <<found, layers>>
         [] OTHER ->
              /\ fresh
              /\ UNCHANGED <<emitted, found, layers>>
  /\ UNCHANGED <<dMsg, dPc, ops, stopCmds, yaml, worldVars, dispatched, chanVars, stageVars, agentVars>>

\* docker_operations.py:242-248: readline() on the output of the pull has no
\* timeout; a pull that neither prints a line nor exits blocks the handler
PullBlocked ==
  /\ dPc = "pull"
  /\ dPc' = "blocked"
  /\ UNCHANGED <<dMsg, emitted, ops, stopCmds, yaml, pullVars, worldVars, dispatched,
                 chanVars, stageVars, agentVars>>

\* mutant: the start of the services is not announced
PulledUpdatesShort == <<Update("pulled", 70)>>

\* docker_operations.py:405-413
PulledUpdates == <<Update("pulled", 70), Update("starting_services", 80)>>

\* docker_operations.py:316-363 and 398-413: the pull ends
PullEnd ==
  /\ dPc = "pull"
  /\ \E r \in Outcomes :
       /\ ops' = Append(ops, Op("pull", r))
       /\ IF StageFailed(r)
            THEN /\ dPc' = "startfail"
                 /\ UNCHANGED emitted
            ELSE /\ dPc' = "up"
                 /\ emitted' = emitted \o PulledUpdates
  /\ UNCHANGED <<dMsg, stopCmds, yaml, pullVars, worldVars, dispatched, chanVars, stageVars, agentVars>>

\* docker_operations.py:414-449 and 460-465: docker-compose up
StartUp ==
  /\ dPc = "up"
  /\ \E r \in Outcomes :
       /\ ops' = Append(ops, Op("up", r))
       /\ live' = IF r = "ok" THEN yaml.ver ELSE live
       /\ exited' = IF r = "ok" THEN FALSE ELSE exited
       /\ dPc' = IF r = "ok" THEN "prune" ELSE "startfail"
  /\ UNCHANGED <<dMsg, emitted, stopCmds, yaml, pullVars, storeVars, applied,
                 liveBefore, exitedBefore, stoppedOk, dispatched, chanVars, stageVars, agentVars>>

\* docker_operations.py:503-507: the prune commands of cleanup_old_images
CleanupCommands == {"images", "containers", "system"}

\* docker_operations.py:514-557: how one prune command ends: return code 0,
\* another return code, TimeoutExpired, or another exception
PruneReplies == {"ok", "err", "timeout", "raise"}

\* docker_operations.py:559, successful_cleanups is not empty
AnyCleaned(rs) == \E c \in CleanupCommands : rs[c] = "ok"

\* mutant: a cleanup without a successful prune fails the start
StartNeedsCleanup(up, cleaned) == up /\ cleaned

\* docker_operations.py:429-441: start_docker_services returns success when
\* `up` returned 0; cleanup_result is only passed on
StartResult(up, cleaned) == up

\* docker_operations.py:499-581: cleanup_old_images, called after a
\* successful `up`; "fail" is no prune command succeeding
CleanupOldImages ==
  /\ dPc = "prune"
  /\ \E rs \in [CleanupCommands -> PruneReplies] :
       /\ ops' = Append(ops, Op("prune", IF AnyCleaned(rs) THEN "ok" ELSE "fail"))
       /\ emitted' = emitted \o <<Update("cleanup", 90)>>
                       \o (IF AnyCleaned(rs) THEN <<Update("cleanup_complete", 95)>>
                                              ELSE <<>>)
       /\ dPc' = IF StartResult(TRUE, AnyCleaned(rs)) THEN "startok" ELSE "startfail"
  /\ UNCHANGED <<dMsg, stopCmds, yaml, pullVars, worldVars, dispatched, chanVars, stageVars, agentVars>>

\* action_handlers.py:231-242: apply_ota_update after start_docker_services
ApplyStart ==
  /\ dPc \in {"startok", "startfail"}
  /\ dMsg.action = "upgrade"
  /\ IF dPc = "startok"
       THEN /\ emitted' = Append(emitted, Update("completed", 100))
            /\ applied' = yaml
       ELSE /\ emitted' = Append(emitted, Update("error", 80))
            /\ UNCHANGED applied
  /\ dPc' = AfterApply(dPc = "startok")
  /\ UNCHANGED <<dMsg, ops, stopCmds, yaml, pullVars, storeVars, engineVars, dispatched,
                 chanVars, stageVars, agentVars>>

\* action_handlers.py:77, cleanup_temp_file after apply_ota_update returned
\* (file_manager.py:135-142): the file is unlinked, or the unlink raises
\* OSError, which is logged and leaves the file
UpgradeCleanup ==
  /\ dPc = "cleanup"
  /\ \E r \in Outcomes : ops' = Append(ops, Op("cleanup_temp", r))
  /\ dPc' = "done"
  /\ UNCHANGED <<dMsg, emitted, stopCmds, yaml, pullVars, worldVars, dispatched, chanVars, stageVars, agentVars>>

\* action_handlers.py:97-126, handle_stop_action
HandleStop ==
  /\ dPc = "stop"
  /\ \E e \in EngineReplies :
       LET run == StopContainer(Container(live, exited), e)
           r == StopResult(run)
       IN
       /\ ops' = Append(ops, Op("stop_services", r))
       /\ stopCmds' = Issued(run.cmds)
       /\ live' = IF run.c = "running" THEN live ELSE 0
       /\ exited' = (run.c = "exited")
       /\ emitted' = emitted \o <<Update("stopping", 10)>>
                       \o (IF r = "ok" THEN <<Update("completed", 100)>>
                                       ELSE <<Update("error", 10)>>)
  /\ dPc' = "done"
  /\ UNCHANGED <<dMsg, yaml, pullVars, storeVars, applied, liveBefore,
                 exitedBefore, stoppedOk, dispatched, chanVars, stageVars, agentVars>>

\* mutant: the result of load_latest_config is not examined
ConfigFoundAlways(r, stored) == TRUE

\* file_manager.py:94-118 and action_handlers.py:150: load_latest_config
\* succeeds when the latest file exists and is read without an exception
ConfigFound(r, stored) == r = "ok" /\ stored # NoYaml

\* action_handlers.py:139-159, handle_start_action up to the configuration:
\* the inline manifest, or the stored latest one (file_manager.py:89-118)
HandleStartLoad ==
  /\ dPc = "start"
  /\ IF dMsg.yaml
       THEN /\ \E sv \in BOOLEAN : yaml' = [ver |-> NewVer, services |-> sv]
            /\ emitted' = Append(emitted, Update("starting", 10))
            /\ dPc' = "startsvc"
            /\ UNCHANGED ops
       ELSE \E r \in {"ok", "fail"} :
              /\ ops' = Append(ops, Op("load_latest",
                           IF ConfigFound(r, latest) THEN "ok" ELSE "fail"))
              /\ IF ConfigFound(r, latest)
                   THEN /\ yaml' = latest
                        /\ emitted' = Append(emitted, Update("starting", 10))
                        /\ dPc' = "startsvc"
                   ELSE /\ emitted' = emitted \o <<Update("starting", 10),
                                                   Update("error", 10)>>
                        /\ dPc' = "done"
                        /\ UNCHANGED yaml
  /\ UNCHANGED <<dMsg, stopCmds, pullVars, worldVars, dispatched, chanVars, stageVars, agentVars>>

\* action_handlers.py:161-171: handle_start_action after
\* start_docker_services
HandleStartRun ==
  /\ dPc \in {"startok", "startfail"}
  /\ dMsg.action = "start"
  /\ IF dPc = "startok"
       THEN /\ emitted' = Append(emitted, Update("completed", 100))
            /\ applied' = IF dMsg.yaml THEN applied ELSE yaml
       ELSE /\ emitted' = Append(emitted, Update("error", 80))
            /\ UNCHANGED applied
  /\ dPc' = "done"
  /\ UNCHANGED <<dMsg, ops, stopCmds, yaml, pullVars, storeVars, engineVars, dispatched,
                 chanVars, stageVars, agentVars>>

NextDispatch ==
  \/ OtaProcess
  \/ NextMessage
  \/ UpgradeCheck \/ UpgradeDownload \/ ApplyStop \/ ApplyStore
  \/ StartServices \/ PullLine \/ PullBlocked \/ PullEnd \/ StartUp
  \/ CleanupOldImages
  \/ ApplyStart \/ UpgradeCleanup
  \/ HandleStop
  \/ HandleStartLoad \/ HandleStartRun

\* the device when the first message arrives: nothing installed, or
\* version 1 installed, stored and running
Installed == {NoYaml, [ver |-> 1, services |-> TRUE]}

InitDispatch ==
  /\ InitChannel
  /\ dMsg \in DispatchInputs
  /\ dPc = "recv"
  /\ emitted = <<>>
  /\ ops = <<>>
  /\ stopCmds = NoCommands
  /\ yaml = NoYaml
  /\ found = 0
  /\ layers = 0
  /\ lines = 0
  /\ \E m \in Installed :
       /\ latest = m
       /\ tagged = {m.ver} \ {0}
       /\ storeBefore = [latest |-> m, tagged |-> {m.ver} \ {0}]
       /\ applied = m
       /\ live = m.ver
       /\ liveBefore = m.ver
  /\ exited = FALSE
  /\ exitedBefore = FALSE
  /\ stoppedOk = FALSE
  /\ dispatched = 1
  /\ StageIdle
  /\ AgentIdle

SpecDispatch == InitDispatch /\ [][NextDispatch]_vars

\* the dispatcher under a fair scheduler: the thread that runs the handler
\* takes its next step whenever it has one
FairSpecDispatch == SpecDispatch /\ WF_vars(NextDispatch)

\* statuses that report a rejected command
ValidationClass == {"error", "validation_error", "decode_error", "error_message"}

\* C10: a command without `action` or without `service_name` ends with a
\* validation-class progress update and without any download, container or
\* storage operation.
C10_MissingFieldReported ==
  (/\ dPc = "done"
   /\ dMsg.kind = "object"
   /\ (Falsy(dMsg.action) \/ Falsy(dMsg.service)))
    => /\ ops = <<>>
       /\ Len(emitted) = 1
       /\ emitted[1].status \in ValidationClass

\* statuses that end a dispatch: the rollout completed, or an error-class
\* update
TerminalClass ==
  {"completed", "error", "download_error", "decode_error", "error_message",
   "validation_error"}

\* the terminal updates among the emitted ones
TerminalUpdates == {k \in 1..Len(emitted) : emitted[k].status \in TerminalClass}

\* C11: when ota_process has returned (or raised), exactly one terminal
\* progress update was emitted for the message.
C11_OneTerminalUpdate ==
  dPc \in {"done", "raised"} => Cardinality(TerminalUpdates) = 1

\* C12: ota_process never raises to its caller, whatever the message is.
C12_NeverRaises == dPc # "raised"

\* C13: an upgrade whose download failed or whose checksum did not match
\* performs no other operation (no stop, no store, no pull, no start), leaves
\* the running containers as they were, and emits the fetch failure update
\* only.
C13_FailedFetchTouchesNothing ==
  (Len(ops) >= 1 /\ ops[1].op = "download" /\ ops[1].res # "ok")
    => /\ dPc = "done"
       /\ Len(ops) = 1
       /\ emitted = <<Update("download_error", 0)>>
       /\ live = liveBefore

\* the checksum of the downloaded artifact did not match, with version 1
\* running
C13_Witness ==
  /\ dPc = "done"
  /\ ops = <<Op("download", "checksum_mismatch")>>
  /\ live = 1

\* C14: an upgrade command without tag, s3_url or checksum is rejected with
\* an error update, without download, container operation or store.
C14_IncompleteUpgradeRejected ==
  (/\ dMsg.kind = "object"
   /\ dMsg.action = "upgrade"
   /\ dMsg.service = "svc"
   /\ (~dMsg.tag \/ ~dMsg.s3_url \/ ~dMsg.checksum)
   /\ dPc \notin {"recv", "upgrade"})
    => /\ dPc = "done"
       /\ ops = <<>>
       /\ emitted = <<Update("error", 0)>>

\* an upgrade with a tag and an s3_url but no checksum was rejected
C14_Witness ==
  /\ dPc = "done"
  /\ dMsg.action = "upgrade"
  /\ dMsg.service = "svc"
  /\ dMsg.tag /\ dMsg.s3_url /\ ~dMsg.checksum
  /\ emitted = <<Update("error", 0)>>

\* C15: within one rollout the percent of successive emitted updates never
\* decreases.
C15_PercentNonDecreasing ==
  \A k \in 1..(Len(emitted) - 1) : emitted[k].progress <= emitted[k + 1].progress

\* the stage of the rollout an update reports, by its status.  The `starting`
\* update of apply_ota_update is emitted after the download has ended and
\* before anything is stopped; it reports none of the six stages.
StageOf(status) ==
  CASE status = "download_error" -> "Fetching"
    [] status = "stopping" -> "Stopping"
    [] status = "storing" -> "Storing"
    [] status \in {"pulling", "pulling_service", "layer_complete", "downloading",
                   "extracting", "pulled"} -> "PullingImages"
    [] status = "starting_services" -> "Starting"
    [] status \in {"cleanup", "cleanup_complete", "cleanup_error"} -> "CleaningUp"
    [] status = "completed" -> "Completed"
    [] status = "starting" -> "Announced"
    [] OTHER -> "Failed"

PipelineStages ==
  {"Fetching", "Stopping", "Storing", "PullingImages", "Starting", "CleaningUp"}

RECURSIVE StagesShown(_)
\* the stages a sequence of updates shows, in order, each run of updates of
\* one stage counted once
StagesShown(seq) ==
  IF seq = <<>> THEN <<>>
  ELSE LET rest == StagesShown(SubSeq(seq, 1, Len(seq) - 1))
           st == StageOf(seq[Len(seq)].status)
       IN IF rest # <<>> /\ rest[Len(rest)] = st THEN rest ELSE Append(rest, st)

\* the stages of the pipeline among the stages shown
PipelineShown == SelectSeq(StagesShown(emitted), LAMBDA st : st \in PipelineStages)

\* the operations of an upgrade that ran every stage with success
AllStagesOk ==
  /\ dMsg.action = "upgrade"
  /\ dPc = "done"
  /\ \A name \in {"download", "stop_services", "store", "pull", "up"} :
       Op(name, "ok") \in Range(ops)

StageOps == {"stop_services", "store", "pull", "up"}

\* C17: in an upgrade, once a stage (stop, store, pull, start) has failed no
\* later stage is executed, and the rollout ends with an error update.
C17_FailureAbortsRollout ==
  dMsg.action = "upgrade" =>
    \A k \in 1..Len(ops) :
      (ops[k].op \in StageOps /\ ops[k].res # "ok")
        => /\ \A j \in (k + 1)..Len(ops) : ops[j].op \notin (StageOps \cup {"prune"})
           /\ dPc = "done" => emitted[Len(emitted)].status = "error"

\* the store failed after the services were stopped, and the rollout ended
C17_Witness ==
  /\ dPc = "done"
  /\ Len(ops) >= 3
  /\ ops[2] = Op("stop_services", "ok")
  /\ ops[3] = Op("store", "fail_latest")

\* C18: between rollouts the stored latest manifest is the manifest of the
\* last rollout that completed successfully.
C18_LatestIsLastApplied == dPc = "done" => latest = applied

\* C19: when the pull failed, the error update that ends the rollout carries
\* a percent of the pull stage, between 30 and 70.
C19_PullFailurePercent ==
  (dPc = "done" /\ Op("pull", "fail") \in Range(ops))
    => /\ emitted[Len(emitted)].status = "error"
       /\ emitted[Len(emitted)].progress \in 30..70

\* C20: when the pull failed, nothing was started and the version that was
\* running when the command arrived is still running.
C20_PullFailureKeepsRunning ==
  (dPc = "done" /\ Op("pull", "fail") \in Range(ops))
    => /\ \A k \in 1..Len(ops) : ops[k].op # "up"
       /\ live = liveBefore

----------------------------------------------------------------------------
(* Start and Stop commands.                                                *)

\* the message is a command for the service with the given action
Command(action) ==
  dMsg.kind = "object" /\ dMsg.action = action /\ dMsg.service = "svc"

\* neither the tagged files nor the latest file differ from what they were
\* when the message arrived
StoreUntouched == latest = storeBefore.latest /\ tagged = storeBefore.tagged

\* C21: a Start without an inline manifest, for a service that has no stored
\* latest manifest, ends with an error update (the one that reports the
\* missing stored configuration, after the `starting` announcement) and
\* performs no pull, no container start and no write of the state store: the
\* failed load is its only operation.
C21_StartWithoutConfigFails ==
  (/\ Command("start")
   /\ ~dMsg.yaml
   /\ storeBefore.latest = NoYaml
   /\ dPc \notin {"recv", "start"})
    => /\ dPc = "done"
       /\ ops = <<Op("load_latest", "fail")>>
       /\ emitted = <<Update("starting", 10), Update("error", 10)>>
       /\ StoreUntouched
       /\ live = liveBefore

\* the second message is a Start without manifest and nothing is stored,
\* the first one having been a Stop
C21_Witness ==
  /\ Command("start")
  /\ ~dMsg.yaml
  /\ storeBefore.latest = NoYaml
  /\ dPc = "done"
  /\ dispatched = 2
  /\ stoppedOk

C23_StopCompletesWhenRemoved ==
  (Command("stop") /\ dPc = "done")
    => /\ Len(ops) = 1
       /\ ops[1].op = "stop_services"
       /\ Len(emitted) = 2
       /\ emitted[1] = Update("stopping", 10)
       /\ emitted[2] \in {Update("completed", 100), Update("error", 10)}
       /\ emitted[2] = Update("completed", 100) => Container(live, exited) = "absent"
       /\ (Container(liveBefore, exitedBefore) # "absent"
             /\ Container(live, exited) = "absent")
            => emitted[2] = Update("completed", 100)

\* the container of the service when the message arrived
ContainerBefore == Container(liveBefore, exitedBefore)

\* C24: for a container that is already absent, stop_docker_services issues
\* no stop, kill or remove and, unless a listing command times out, returns
\* success without listing it as failed; and a stopping stage that follows a
\* successful one, with nothing started in between, returns success unless
\* one of its commands times out.
C24_StoppingIdempotent ==
  \A k \in 1..Len(ops) :
    (ops[k].op = "stop_services" /\ ~stopCmds.timeout)
      => /\ ContainerBefore = "absent"
              => (~stopCmds.removals /\ ops[k].res = "ok")
         /\ stoppedOk => ops[k].res = "ok"

----------------------------------------------------------------------------
(* The state store.                                                        *)

\* the store call of the rollout returned a failure: one of its copies raised
StoreFailed == \E k \in 1..Len(ops) : ops[k].op = "store" /\ ops[k].res # "ok"

\* C25: when store_update_files returns a failure, neither the tagged file
\* nor the latest file of the service differs from what it was before the
\* call.
C25_StoreAllOrNothing == StoreFailed => StoreUntouched

\* C26: when either copy of store_update_files fails, the upgrade reports an
\* error update (at 20, the percent of the storing stage) as its last update
\* and goes on to no pull and no container start.
C26_FailedCopyFailsRollout ==
  StoreFailed
    => /\ dPc \in {"cleanup", "done"}
       /\ emitted[Len(emitted)] = Update("error", 20)
       /\ \A k \in 1..Len(ops) : ops[k].op \notin {"compose_file", "pull", "up", "prune"}

\* the copy to the latest file failed after the tagged file was written, and
\* the rollout ended
C26_Witness ==
  /\ dPc = "done"
  /\ Op("store", "fail_latest") \in Range(ops)
  /\ tagged # storeBefore.tagged

----------------------------------------------------------------------------
(* Termination of a rollout and its cleanup stage.                         *)

\* a handler has been entered and has not returned
InRollout == dPc \notin {"idle", "recv", "done", "raised"}

\* C27: under a fair scheduler every rollout that starts reaches a terminal
\* state: the handler returns.
C27_RolloutTerminates == InRollout ~> (dPc = "done")

\* C28: every engine operation of a rollout is bounded by a timeout: the
\* handler is never left waiting in an engine operation that does not
\* complete.
C28_EngineCallsBounded == dPc # "blocked"

\* C29: once `up` has succeeded, whatever the prune commands of the cleanup
\* do, the rollout ends with `completed` at 100 and every terminal update it
\* emitted is `completed`.
C29_CleanupNeverFailsRollout ==
  (dPc = "done" /\ Op("up", "ok") \in Range(ops))
    => /\ emitted[Len(emitted)] = Update("completed", 100)
       /\ \A k \in TerminalUpdates : emitted[k].status = "completed"
       /\ \A k \in 1..Len(emitted) : emitted[k].status # "cleanup_error"

\* an upgrade ended after a cleanup in which no prune command succeeded
C29_Witness ==
  /\ dPc = "done"
  /\ dMsg.action = "upgrade"
  /\ Op("up", "ok") \in Range(ops)
  /\ Op("prune", "fail") \in Range(ops)

----------------------------------------------------------------------------
(* Rollouts and the inbound loop.                                          *)

\* receiver thread i is inside the callback, that is, inside ota_process
InCallback(i) == rcvPc[i] \in {"cb", "cbsend"}

\* C30: at most one rollout is in progress at any time: at most one thread
\* is inside the callback, so no Upgrade writes the latest file while a Start
\* reads it.
C30_OneRolloutAtATime == Cardinality({i \in RcvIds : InCallback(i)}) <= 1

\* a rollout is still running in the receiver thread after the connection
\* was lost and made again
C30_Witness ==
  /\ \E i \in RcvIds : InCallback(i) /\ receiver_thread = i
  /\ connects = 2
  /\ connected

----------------------------------------------------------------------------
(* The percent reported while images are pulled.                           *)

\* the statuses of the updates that lines of the pull's output produce
LineStatuses == {"pulling_service", "layer_complete", "downloading", "extracting"}

\* the updates emitted for recognised lines of the pull's output, in order
LineUpdates == SelectSeq(emitted, LAMBDA u : u.status \in LineStatuses)

\* C31: every percent emitted for a recognised line of the pull's output lies
\* in the band from 30 up to, but not including, 70, and is not lower than
\* the percent emitted for the recognised line before it; a line that is not
\* recognised emits nothing.
C31_PullPercentInBandAndMonotone ==
  /\ \A k \in 1..Len(LineUpdates) :
       LineUpdates[k].progress >= 30 /\ LineUpdates[k].progress < 70
  /\ \A k \in 1..(Len(LineUpdates) - 1) :
       LineUpdates[k].progress <= LineUpdates[k + 1].progress
  /\ Len(LineUpdates) <= lines

(* The stopping stage on several containers.                               *)

\* the position of a command in the commands of a run, 0 when it is absent
At(run, c) ==
  IF \E k \in 1..Len(run.cmds) : run.cmds[k] = c
    THEN CHOOSE k \in 1..Len(run.cmds) : run.cmds[k] = c
    ELSE 0

\* command c of the run is followed at once by command d
Then(run, c, d) ==
  At(run, c) # 0 /\ At(run, c) < Len(run.cmds) /\ run.cmds[At(run, c) + 1] = d

\* command c is the last command of the run
Last(run, c) == At(run, c) # 0 /\ At(run, c) = Len(run.cmds)

\* the answer of the engine to command c of the run
Answer(run, c) == run.answers[At(run, c)]

\* the run found the container running
FoundRunning(run) == run.before = "running" /\ run.answers[1] = "ok"

\* the order of the commands of one run, where `failing` are the answers
\* that count as a failed command
Escalation(run, failing) ==
  /\ run.cmds[1] = "ps"
  /\ FoundRunning(run) <=> Then(run, "ps", "stop")
  /\ At(run, "stop") # 0 =>
       /\ Answer(run, "stop") = "ok" => Then(run, "stop", "rm")
       /\ Answer(run, "stop") \in failing => Then(run, "stop", "kill")
  /\ At(run, "kill") # 0 =>
       /\ Then(run, "stop", "kill") /\ Answer(run, "stop") # "ok"
       /\ IF Answer(run, "kill") = "ok"
            THEN Then(run, "kill", "rm_f") /\ Last(run, "rm_f")
            ELSE Last(run, "kill")
  /\ At(run, "rm") # 0 =>
       /\ Then(run, "stop", "rm") /\ Answer(run, "stop") = "ok"
       /\ Answer(run, "rm") = "ok" => Last(run, "rm")
       /\ Answer(run, "rm") \in failing =>
            Then(run, "rm", "rm_f") /\ Last(run, "rm_f")
       /\ Then(run, "rm", "rm_f") => Answer(run, "rm") # "ok"

\* the last removal of the chain of a running container answered 0
LastRemovalSucceeded(run) ==
  /\ At(run, "stop") # 0
  /\ \/ Last(run, "rm") /\ Answer(run, "rm") = "ok"
     \/ Last(run, "rm_f") /\ Answer(run, "rm_f") = "ok"

\* the services counted in stopped_services
CountedStopped == Range(stopped_services)

\* C32: for every container the commands follow the escalation order: the
\* running check first; a stop when the container was found running; after
\* a stop that failed a kill and then a removal; after a stop that
\* succeeded a removal and, only when that removal failed, a removal with
\* force.  A command fails when it answers with an error or does not
\* answer within its timeout.  The container is counted as stopped exactly
\* when the last removal of its chain succeeded.
C32_EscalationOnAnyFailure ==
  \A i \in 1..Len(runs) :
    /\ Escalation(runs[i], {"err", "timeout"})
    /\ i \in CountedStopped <=> LastRemovalSucceeded(runs[i])

\* a command of the run did not answer within its timeout
RunTimedOut(run) == \E k \in 1..Len(run.cmds) : run.answers[k] = "timeout"

\* what the code does: the escalation order is followed on a command that
\* answers with an error; a command that does not answer within its timeout
\* is the last of the chain and the container is counted as failed
EscalationOnErrorOnly ==
  \A i \in 1..Len(runs) :
    /\ Escalation(runs[i], {"err"})
    /\ RunTimedOut(runs[i]) =>
         /\ runs[i].answers[Len(runs[i].cmds)] = "timeout"
         /\ i \in Range(failed_services)
    /\ i \in CountedStopped <=> LastRemovalSucceeded(runs[i])

\* the services whose container is still there when the call returns
NotRemoved == {i \in 1..Len(runs) : runs[i].after # "absent"}

\* the services one of whose commands did not answer within its timeout
TimedOutServices == {i \in 1..Len(runs) : RunTimedOut(runs[i])}

\* C33: when the stopping stage returns, every service of the manifest was
\* handled, whatever happened to the services before it; the result is a
\* failure exactly when a container could not be stopped and removed (or a
\* command timed out); a failure names every container that is still there
\* and lists every container whose chain ended in a successful removal
C33_OutcomesTrackedIndependently ==
  stagePc = "returned" =>
    /\ Len(runs) = Len(services)
    /\ stopReturn.success = FALSE <=> (NotRemoved \cup TimedOutServices) # {}
    /\ stopReturn.success = FALSE =>
         /\ NotRemoved \subseteq Range(stopReturn.failed)
         /\ \A i \in 1..Len(runs) :
              LastRemovalSucceeded(runs[i]) => i \in Range(stopReturn.stopped)

(* The temporary file of the downloaded artifact.                          *)

\* the artifact of the message in hand was downloaded and verified
Downloaded == Op("download", "ok") \in Range(ops)

\* cleanup_temp_file was called for the temporary file and was the last
\* operation of the handler
CleanupCalled == ops # <<>> /\ ops[Len(ops)].op = "cleanup_temp"

\* the temporary file is still on the disk
TempFileLeft == Downloaded /\ Op("cleanup_temp", "ok") \notin Range(ops)

Returned == dPc = "done"

\* no download, storage or container operation was made for the message
NoOperation ==
  /\ ops = <<>>
  /\ StoreUntouched
  /\ live = liveBefore
  /\ exited = exitedBefore

\* C35: a text message that is not JSON produces exactly one update, with
\* status decode_error, and no operation; a message of bytes produces
\* exactly one update, an error report, and no operation
C35_UnreadableMessageReportedOnce ==
  /\ dMsg.kind \in {"badjson", "bytes"} =>
       /\ NoOperation
       /\ dPc \in {"recv", "done"}
       /\ Len(emitted) = (IF Returned THEN 1 ELSE 0)
  /\ (dMsg.kind = "badjson" /\ Returned) => emitted[1].status = "decode_error"
  /\ (dMsg.kind = "bytes" /\ Returned) => emitted[1].status = "error_message"

\* a message that is not JSON was answered, after a rollout that changed
\* the running version
C35_Witness ==
  /\ dMsg.kind = "badjson"
  /\ Returned
  /\ emitted = <<Update("decode_error", 0)>>
  /\ dispatched = 2
  /\ live = 2

(* Part III.  The background threads of the agent                          *)
(* (src/OTA/agent/main.py): the container-info thread, which fetches the   *)
(* container descriptions from the server, and the status thread, which    *)
(* reads the local containers and reports them.  Both are started by       *)
(* AgentOTA.__init__ (lines 59-60).  A step of a thread is what it does    *)
(* between two reads or writes of self.container_descriptions.             *)

\* the status thread is between the listing and the return of
\* read_container_status
Reading == statusPc = "lines"

\* main.py:66-76: the fetch answered; a non-empty container_info replaces
\* self.container_descriptions, an empty one leaves it
FetchOk ==
  /\ infoPc = "fetch"
  /\ \E info \in SUBSET Names :
       /\ container_descriptions' =
            IF info # {} THEN info ELSE container_descriptions
       /\ snapshots' =
            IF Reading /\ info # {} THEN snapshots \cup {info} ELSE snapshots
  /\ infoPc' = "sleep"
  /\ UNCHANGED <<statusPc, psOut, pending, found_containers, missing_containers,
                 rolloutVars, stageVars, chanVars>>

\* main.py:78-80: the request, the status check or the decoding raised
FetchFail ==
  /\ infoPc = "fetch"
  /\ infoPc' = "sleep"
  /\ UNCHANGED <<container_descriptions, statusPc, psOut, pending,
                 found_containers, missing_containers, snapshots,
                 rolloutVars, stageVars, chanVars>>

\* main.py:77, 80: after the sleep _fetch_docker_info returns, and with it
\* the target of the thread
FetchReturn ==
  /\ infoPc = "sleep"
  /\ infoPc' = "dead"
  /\ UNCHANGED <<container_descriptions, statusPc, psOut, pending,
                 found_containers, missing_containers, snapshots,
                 rolloutVars, stageVars, chanVars>>

\* main.py:111-119: `docker ps -a` lists the local containers
ReadPs ==
  /\ statusPc = "ps"
  /\ \E listed \in SUBSET Names :
       /\ psOut' = listed
       /\ pending' = listed
  /\ found_containers' = {}
  /\ missing_containers' = {}
  /\ snapshots' = {container_descriptions}
  /\ statusPc' = "lines"
  /\ UNCHANGED <<container_descriptions, infoPc, rolloutVars, stageVars, chanVars>>

\* main.py:113-117, 167-178: the listing failed, timed out or raised:
\* read_container_status returns None and nothing is reported
ReadPsFail ==
  /\ statusPc = "ps"
  /\ statusPc' = "sleep"
  /\ UNCHANGED <<container_descriptions, infoPc, psOut, pending, found_containers,
                 missing_containers, snapshots, rolloutVars, stageVars, chanVars>>

\* main.py:122-142: one line of the listing; the name is looked up in
\* self.container_descriptions as it is now
ReadLine ==
  /\ statusPc = "lines"
  /\ \E name \in pending :
       /\ pending' = pending \ {name}
       /\ found_containers' =
            IF name \in container_descriptions
              THEN found_containers \cup {name}
              ELSE found_containers
  /\ UNCHANGED <<container_descriptions, infoPc, statusPc, psOut,
                 missing_containers, snapshots, rolloutVars, stageVars, chanVars>>

\* main.py:144-165: after the last line the missing containers are the
\* names of self.container_descriptions, as it is now, that were not found
ReadMissing ==
  /\ statusPc = "lines"
  /\ pending = {}
  /\ missing_containers' = container_descriptions \ found_containers
  /\ statusPc' = "post"
  /\ UNCHANGED <<container_descriptions, infoPc, psOut, pending, found_containers,
                 snapshots, rolloutVars, stageVars, chanVars>>

\* main.py:189-207: the status is posted to the server; a failure is logged
ReportStatus ==
  /\ statusPc = "post"
  /\ statusPc' = "sleep"
  /\ UNCHANGED <<container_descriptions, infoPc, psOut, pending, found_containers,
                 missing_containers, snapshots, rolloutVars, stageVars, chanVars>>

\* main.py:187-188, 208: after the sleep the loop reads again
ReportAgain ==
  /\ statusPc = "sleep"
  /\ statusPc' = "ps"
  /\ psOut' = {}
  /\ pending' = {}
  /\ found_containers' = {}
  /\ missing_containers' = {}
  /\ snapshots' = {}
  /\ UNCHANGED <<container_descriptions, infoPc, rolloutVars, stageVars, chanVars>>

InfoThread == FetchOk \/ FetchFail \/ FetchReturn

StatusThread ==
  ReadPs \/ ReadPsFail \/ ReadLine \/ ReadMissing \/ ReportStatus \/ ReportAgain

NextAgent == InfoThread \/ StatusThread

\* main.py:31-60: the agent after construction, both threads started
InitAgent ==
  /\ InitChannel
  /\ dMsg = NoMessage
  /\ dPc = "idle"
  /\ emitted = <<>>
  /\ ops = <<>>
  /\ stopCmds = NoCommands
  /\ yaml = NoYaml
  /\ found = 0
  /\ layers = 0
  /\ lines = 0
  /\ latest = NoYaml
  /\ tagged = {}
  /\ storeBefore = [latest |-> NoYaml, tagged |-> {}]
  /\ applied = NoYaml
  /\ live = 0
  /\ liveBefore = 0
  /\ exited = FALSE
  /\ exitedBefore = FALSE
  /\ stoppedOk = FALSE
  /\ dispatched = 0
  /\ StageIdle
  /\ container_descriptions = Builtin
  /\ infoPc = "fetch"
  /\ statusPc = "ps"
  /\ psOut = {}
  /\ pending = {}
  /\ found_containers = {}
  /\ missing_containers = {}
  /\ snapshots = {}

SpecAgent == InitAgent /\ [][NextAgent]_vars

\* the status found and missing sets a read would compute from the
\* descriptions d
ConsistentWith(d) ==
  /\ found_containers = psOut \cap d
  /\ missing_containers = d \ psOut

\* C36: when read_container_status returns a status, its found and missing
\* containers are those of one of the description sets that
\* self.container_descriptions held during the read
C36_StatusFromOneSnapshot ==
  statusPc = "post" => \E d \in snapshots : ConsistentWith(d)

\* C37: the container-info thread lives as long as the agent: it never
\* ends, so that every fetch is followed by another
C37_InfoThreadKeepsFetching == infoPc # "dead"

(* Threads and connections of the channel client.                          *)

\* the receiver threads and the sender threads that are alive
AliveReceivers == {i \in RcvIds : IsAlive(rcvPc[i])}
AliveSenders == {j \in SndIds : IsAlive(sndPc[j])}

\* C38: under one supervisory loop at most one receiver thread and at most
\* one sender thread are alive, whatever connections were lost and made
C38_OneReceiverOneSender ==
  /\ Cardinality(AliveReceivers) <= 1
  /\ Cardinality(AliveSenders) <= 1

\* a receiver and a sender are alive on the second connection, after the
\* first was lost
C38_Witness ==
  /\ connects = 2
  /\ connected
  /\ Cardinality(AliveReceivers) = 1
  /\ Cardinality(AliveSenders) = 1

\* receiver i ends on the close of a connection that is no longer the
\* current one
LateClose(i) ==
  /\ rcvPc[i] = "recv"
  /\ rcvWs[i] # websocket
  /\ rcvPc'[i] = "exit"

\* C39: once a new connection is established, the close of the previous
\* connection, seen late by the receiver, does not set connected to false
C39_SupersededCloseIgnored ==
  [][\A i \in RcvIds : (LateClose(i) /\ connected) => connected']_vars

\* no inbound message was handed to the callback twice
DeliveredOnce == \A a, b \in 1..Len(handled) : a # b => handled[a] # handled[b]

\* a receiver thread has left its loop and the client is disconnected
ReceiverGone == ~connected /\ \E i \in RcvIds : rcvPc[i] = "exit"

====
